---- MODULE Spec2Model ----
(***************************************************************************)
(* Model of app.py: the renovation-transcript-to-Excel pipeline.           *)
(*                                                                         *)
(* Representation.  A Python str is a sequence of symbols; a symbol is a   *)
(* TLA+ string standing for the characters it spells ("a", " ", "\n",      *)
(* "Kitchen").  Concatenation of str is \o.  A Python object is a tagged   *)
(* record (PyStr, PyInt, ...); a dict keeps its items in insertion order.  *)
(***************************************************************************)
EXTENDS Integers, Sequences, FiniteSets, TLC

\* ------------------------------------------------------------------ bounds
MaxTextLen == 4
MaxRequests == 2

\* --------------------------------------------------------- str primitives
\* The symbols for which str.isspace() holds (the class \s of re as well).
Whitespace == {" ", "\t", "\n"}

\* The symbols the transcripts of the normalizer check are built from.
TextAlphabet == {"a", "b", " ", "\t", "\n"}

RECURSIVE LStrip(_)
LStrip(s) ==
    IF s = <<>> THEN <<>>
    ELSE IF Head(s) \in Whitespace THEN LStrip(Tail(s)) ELSE s

RECURSIVE RStrip(_)
RStrip(s) ==
    IF s = <<>> THEN <<>>
    ELSE IF s[Len(s)] \in Whitespace THEN RStrip(SubSeq(s, 1, Len(s) - 1)) ELSE s

\* str.strip()
Strip(s) == RStrip(LStrip(s))

\* re.sub(r"\s+", " ", text): scan left to right, each maximal run of
\* whitespace is replaced by one " ".
RECURSIVE ReSubWs(_)
ReSubWs(s) ==
    IF s = <<>> THEN <<>>
    ELSE IF Head(s) \in Whitespace
         THEN <<" ">> \o ReSubWs(LStrip(s))
         ELSE <<Head(s)>> \o ReSubWs(Tail(s))

\* A normalizer that forgets the final strip().
clean_text_nostrip(text) == ReSubWs(text)

\* clean_text (lines 57-59)
clean_text(text) == Strip(ReSubWs(text))

\* str.join
RECURSIVE Join(_, _)
Join(sep, parts) ==
    IF parts = <<>> THEN <<>>
    ELSE IF Len(parts) = 1 THEN parts[1]
    ELSE parts[1] \o sep \o Join(sep, Tail(parts))

\* All str of length at most n over an alphabet.
StrUpTo(alphabet, n) == UNION {[1..k -> alphabet] : k \in 0..n}

\* ==================================================== normalizer (C8)
\* clean_text as a pure function: Init draws the text, CleanOnce applies
\* clean_text, CleanTwice applies it to its own result.
VARIABLES n_text, n_once, n_twice, n_pc

nvars == <<n_text, n_once, n_twice, n_pc>>

NInit ==
    /\ n_text \in StrUpTo(TextAlphabet, MaxTextLen)
    /\ n_once = <<>>
    /\ n_twice = <<>>
    /\ n_pc = "start"

CleanOnce ==
    /\ n_pc = "start"
    /\ n_once' = clean_text(n_text)
    /\ n_pc' = "once"
    /\ UNCHANGED <<n_text, n_twice>>

CleanTwice ==
    /\ n_pc = "once"
    /\ n_twice' = clean_text(n_once)
    /\ n_pc' = "twice"
    /\ UNCHANGED <<n_text, n_once>>


\* ========================================================= Python objects
PyStr(s) == [t |-> "str", s |-> s]
PyInt(n) == [t |-> "int", n |-> n]
PyFloat(f) == [t |-> "float", f |-> f]
PyBool(b) == [t |-> "bool", b |-> b]
PyNone == [t |-> "NoneType"]
PyList(l) == [t |-> "list", l |-> l]
\* items: the (key, value) pairs of the dict in insertion order, keys unique.
PyDict(items) == [t |-> "dict", items |-> items]

Item(k, v) == [k |-> k, v |-> v]

DictKeys(d) == {d.items[i].k : i \in 1..Len(d.items)}

\* dict.get(key, default)
DictGet(d, key, default) ==
    IF key \in DictKeys(d)
    THEN (CHOOSE it \in {d.items[i] : i \in 1..Len(d.items)} : it.k = key).v
    ELSE default

\* d[key] = v on a list of items: an existing key keeps its position.
DictSet(items, key, v) ==
    IF \E i \in 1..Len(items) : items[i].k = key
    THEN [i \in 1..Len(items) |-> IF items[i].k = key THEN Item(key, v) ELSE items[i]]
    ELSE Append(items, Item(key, v))

CommaSpace == <<",", " ">>

Digits == <<"0", "1", "2", "3", "4", "5", "6", "7", "8", "9">>

\* str(n) of an int
RECURSIVE IntStr(_)
IntStr(n) ==
    IF n < 0 THEN <<"-">> \o IntStr(0 - n)
    ELSE IF n < 10 THEN <<Digits[n + 1]>>
    ELSE IntStr(n \div 10) \o <<Digits[(n % 10) + 1]>>

\* repr(v); no str of the model holds a quote or an escape symbol.
RECURSIVE Repr(_)
Repr(v) ==
    CASE v.t = "str" -> <<"'">> \o v.s \o <<"'">>
      [] v.t = "int" -> IntStr(v.n)
      [] v.t = "float" -> <<v.f>>
      [] v.t = "bool" -> IF v.b THEN <<"True">> ELSE <<"False">>
      [] v.t = "NoneType" -> <<"None">>
      [] v.t = "list" ->
            <<"[">> \o Join(CommaSpace, [i \in 1..Len(v.l) |-> Repr(v.l[i])]) \o <<"]">>
      [] v.t = "dict" ->
            <<"{">> \o Join(CommaSpace,
                            [i \in 1..Len(v.items) |->
                                Repr(PyStr(v.items[i].k)) \o <<":", " ">> \o Repr(v.items[i].v)])
                    \o <<"}">>

\* str(v)
Str(v) == IF v.t = "str" THEN v.s ELSE Repr(v)

\* ============================================================ json.loads
\* A response body is a str whose symbols are JSON tokens: punctuation,
\* whitespace, string literals, numbers, the constants, or other words.
StringTokens ==
    ("\"ProjectName\"" :> <<"ProjectName">>) @@
    ("\"ClientName\"" :> <<"ClientName">>) @@
    ("\"PropertyAddress\"" :> <<"PropertyAddress">>) @@
    ("\"ProjectManager\"" :> <<"ProjectManager">>) @@
    ("\"RenovationAreas\"" :> <<"RenovationAreas">>) @@
    ("\"ScopeOfWork\"" :> <<"ScopeOfWork">>) @@
    ("\"MaterialPreferences\"" :> <<"MaterialPreferences">>) @@
    ("\"BudgetOrCost\"" :> <<"BudgetOrCost">>) @@
    ("\"Timeline\"" :> <<"Timeline">>) @@
    ("\"AdditionalNotes\"" :> <<"AdditionalNotes">>) @@
    ("\"Permits\"" :> <<"Permits">>) @@
    ("\"Oak St Remodel\"" :> <<"Oak St Remodel">>) @@
    ("\"Jane Doe\"" :> <<"Jane Doe">>) @@
    ("\"Kitchen\"" :> <<"Kitchen">>) @@
    ("\"Bath\"" :> <<"Bath">>) @@
    ("\"Not provided\"" :> <<"Not provided">>) @@
    ("\"\"" :> <<>>)

NumberTokens ==
    ("0" :> 0) @@ ("2" :> 2) @@ ("12" :> 12) @@ ("50000" :> 50000) @@ ("-5" :> 0 - 5)

\* The constants json.loads accepts; NaN is accepted although it is not JSON.
ConstantTokens ==
    ("null" :> PyNone) @@ ("true" :> PyBool(TRUE)) @@ ("false" :> PyBool(FALSE)) @@
    ("NaN" :> PyFloat("nan"))

JsonFail == [ok |-> FALSE]
JsonOk(v, next) == [ok |-> TRUE, val |-> v, next |-> next]

\* json.decoder WHITESPACE.match(s, i).end()
RECURSIVE SkipWs(_, _)
SkipWs(toks, i) ==
    IF i <= Len(toks) /\ toks[i] \in Whitespace THEN SkipWs(toks, i + 1) ELSE i

RECURSIVE ParseValue(_, _), ParseArray(_, _, _), ParseObject(_, _, _)

\* scan_once(s, i)
ParseValue(toks, i) ==
    IF i > Len(toks) THEN JsonFail
    ELSE LET tok == toks[i] IN
         CASE tok \in DOMAIN StringTokens -> JsonOk(PyStr(StringTokens[tok]), i + 1)
           [] tok \in DOMAIN NumberTokens -> JsonOk(PyInt(NumberTokens[tok]), i + 1)
           [] tok \in DOMAIN ConstantTokens -> JsonOk(ConstantTokens[tok], i + 1)
           [] tok = "[" ->
                LET j == SkipWs(toks, i + 1) IN
                IF j <= Len(toks) /\ toks[j] = "]" THEN JsonOk(PyList(<<>>), j + 1)
                ELSE ParseArray(toks, j, <<>>)
           [] tok = "{" ->
                LET j == SkipWs(toks, i + 1) IN
                IF j <= Len(toks) /\ toks[j] = "}" THEN JsonOk(PyDict(<<>>), j + 1)
                ELSE ParseObject(toks, j, <<>>)
           [] OTHER -> JsonFail

\* JSONArray: i is where the next element starts.
ParseArray(toks, i, acc) ==
    LET r == ParseValue(toks, i) IN
    IF ~r.ok THEN JsonFail
    ELSE LET j == SkipWs(toks, r.next)
             acc2 == Append(acc, r.val) IN
         IF j > Len(toks) THEN JsonFail
         ELSE IF toks[j] = "]" THEN JsonOk(PyList(acc2), j + 1)
         ELSE IF toks[j] = "," THEN ParseArray(toks, SkipWs(toks, j + 1), acc2)
         ELSE JsonFail

\* JSONObject: i is where the next key starts.
ParseObject(toks, i, acc) ==
    IF i > Len(toks) \/ toks[i] \notin DOMAIN StringTokens THEN JsonFail
    ELSE LET key == StringTokens[toks[i]]
             c == SkipWs(toks, i + 1) IN
         IF c > Len(toks) \/ toks[c] # ":" THEN JsonFail
         ELSE LET r == ParseValue(toks, SkipWs(toks, c + 1)) IN
              IF ~r.ok THEN JsonFail
              ELSE LET j == SkipWs(toks, r.next)
                       acc2 == DictSet(acc, key, r.val) IN
                   IF j > Len(toks) THEN JsonFail
                   ELSE IF toks[j] = "}" THEN JsonOk(PyDict(acc2), j + 1)
                   ELSE IF toks[j] = "," THEN ParseObject(toks, SkipWs(toks, j + 1), acc2)
                   ELSE JsonFail

\* json.loads(s): one value, whitespace around it, nothing after it.
\* ok = FALSE stands for json.JSONDecodeError.
json_loads(s) ==
    LET r == ParseValue(s, SkipWs(s, 1)) IN
    IF ~r.ok THEN JsonFail
    ELSE IF SkipWs(s, r.next) # Len(s) + 1 THEN JsonFail
    ELSE [ok |-> TRUE, val |-> r.val]

\* ========================================================== text extractor
UpperToLower ==
    ("A" :> "a") @@ ("B" :> "b") @@ ("C" :> "c") @@ ("D" :> "d") @@ ("E" :> "e") @@
    ("F" :> "f") @@ ("G" :> "g") @@ ("H" :> "h") @@ ("I" :> "i") @@ ("J" :> "j") @@
    ("K" :> "k") @@ ("L" :> "l") @@ ("M" :> "m") @@ ("N" :> "n") @@ ("O" :> "o") @@
    ("P" :> "p") @@ ("Q" :> "q") @@ ("R" :> "r") @@ ("S" :> "s") @@ ("T" :> "t") @@
    ("U" :> "u") @@ ("V" :> "v") @@ ("W" :> "w") @@ ("X" :> "x") @@ ("Y" :> "y") @@
    ("Z" :> "z")

\* str.lower() on a str of single characters
Lower(s) ==
    [i \in 1..Len(s) |-> IF s[i] \in DOMAIN UpperToLower THEN UpperToLower[s[i]] ELSE s[i]]

\* os.path.splitext(name)[1] for a name without directory separators: the
\* suffix from the last dot, unless only dots come before that dot.
SplitExt(name) ==
    LET dots == {i \in 1..Len(name) : name[i] = "."} IN
    IF dots = {} THEN <<>>
    ELSE LET dotIndex == CHOOSE i \in dots : \A j \in dots : j <= i IN
         IF \E k \in 1..(dotIndex - 1) : name[k] # "."
         THEN SubSeq(name, dotIndex, Len(name))
         ELSE <<>>

Ok(v) == [ok |-> TRUE, val |-> v]
Raise(exc) == [ok |-> FALSE, exc |-> exc]

\* extract_text_from_docx: docx.Document raises on bytes that are no DOCX.
extract_text_from_docx(file_bytes) ==
    IF file_bytes.kind # "docx" THEN Raise("BadZipFile")
    ELSE Ok(Join(<<"\n">>, file_bytes.paragraphs))

RECURSIVE PdfPagesText(_)
PdfPagesText(pages) ==
    IF pages = <<>> THEN <<>>
    ELSE (IF Head(pages).has_text THEN Head(pages).text ELSE <<>>) \o <<"\n">>
         \o PdfPagesText(Tail(pages))

\* extract_text_from_pdf: PdfReader raises on bytes that are no PDF.
extract_text_from_pdf(file_bytes) ==
    IF file_bytes.kind # "pdf" THEN Raise("PdfReadError")
    ELSE Ok(PdfPagesText(file_bytes.pages))

DotDocx == <<".", "d", "o", "c", "x">>
DotPdf == <<".", "p", "d", "f">>

\* An extractor that hands every extension other than .docx to the PDF reader.
extract_text_pdf_default(file_bytes, file_extension) ==
    IF Lower(file_extension) = DotDocx
    THEN [res |-> extract_text_from_docx(file_bytes), calls |-> <<"extract_text_from_docx">>]
    ELSE [res |-> extract_text_from_pdf(file_bytes), calls |-> <<"extract_text_from_pdf">>]

\* extract_text: res is the text or the exception, calls the document
\* readers that were invoked.
extract_text(file_bytes, file_extension) ==
    LET ext == Lower(file_extension) IN
    IF ext = DotDocx
    THEN [res |-> extract_text_from_docx(file_bytes), calls |-> <<"extract_text_from_docx">>]
    ELSE IF ext = DotPdf
    THEN [res |-> extract_text_from_pdf(file_bytes), calls |-> <<"extract_text_from_pdf">>]
    ELSE [res |-> Raise("ValueError"), calls |-> <<>>]

\* extract_text as a pure function: Init draws the bytes and the extension,
\* ExtractCall applies extract_text to them.
VARIABLES e_bytes, e_ext, e_out, e_pc

evars == <<e_bytes, e_ext, e_out, e_pc>>

NotCalled == [res |-> Raise("not called"), calls |-> <<>>]

DocxSpellings ==
    {<<".", d, o, c, x>> : d \in {"d", "D"}, o \in {"o", "O"}, c \in {"c", "C"}, x \in {"x", "X"}}

PdfSpellings ==
    {<<".", p, d, f>> : p \in {"p", "P"}, d \in {"d", "D"}, f \in {"f", "F"}}

OtherExtensions ==
    { <<>>, <<".">>, <<".", "t", "x", "t">>, <<".", "T", "X", "T">>, <<".", "d", "o", "c">>,
      <<"d", "o", "c", "x">>, <<"p", "d", "f">>, <<".", "p", "d", "f", "x">>,
      <<".", "d", "o", "c", "x", " ">>, <<".", "x", "l", "s", "x">> }

Extensions == DocxSpellings \cup PdfSpellings \cup OtherExtensions

EInit ==
    /\ e_bytes \in {[kind |-> "docx", paragraphs |-> << <<"a">>, <<"b">> >>],
                    [kind |-> "pdf", pages |-> << [has_text |-> TRUE, text |-> <<"a">>] >>],
                    [kind |-> "garbage"]}
    /\ e_ext \in Extensions
    /\ e_out = NotCalled
    /\ e_pc = "start"

EOff ==
    /\ e_bytes = [kind |-> "none"]
    /\ e_ext = <<>>
    /\ e_out = NotCalled
    /\ e_pc = "off"

ExtractCall ==
    /\ e_pc = "start"
    /\ e_out' = extract_text(e_bytes, e_ext)
    /\ e_pc' = "done"
    /\ UNCHANGED <<e_bytes, e_ext>>

\* ========================================================= prompt builder
\* One numbered line of the template (lines 66-75).
FieldLine(number, name, hint) ==
    <<number, ".", " ", "\"", name, "\"", ":", " ", hint, "\n">>

\* The template of lines 62-82 around the transcript.
build_prompt(transcript_text) ==
    <<"\n", "You are an AI assistant extracting renovation details from a client transcript.",
      "\n", "Please carefully analyze the conversation and return a JSON object with these keys:",
      "\n", "\n">>
    \o FieldLine("1", "ProjectName",
                 "(If not mentioned, return \"Not provided\")")
    \o FieldLine("2", "ClientName",
                 "(If not mentioned, return \"Not provided\")")
    \o FieldLine("3", "PropertyAddress",
                 "(If not mentioned, return \"Not provided\")")
    \o FieldLine("4", "ProjectManager",
                 "(If not mentioned, return \"Not provided\")")
    \o FieldLine("5", "RenovationAreas",
                 "(List or describe the rooms/areas, e.g., \"Kitchen, Bathroom\")")
    \o FieldLine("6", "ScopeOfWork",
                 "(Summarize all renovation tasks or goals)")
    \o FieldLine("7", "MaterialPreferences",
                 "(List any specific materials or design preferences)")
    \o FieldLine("8", "BudgetOrCost",
                 "(Any budget or cost references)")
    \o FieldLine("9", "Timeline",
                 "(Any schedule or start/end dates mentioned)")
    \o FieldLine("10", "AdditionalNotes",
                 "(Extra details like permit requirements, constraints, etc.)")
    \o <<"\n", "Transcript:", "\n">>
    \o transcript_text
    \o <<"\n", "\n", "Return only valid JSON with exactly the keys:", "\n",
         "ProjectName", ",", " ", "ClientName", ",", " ", "PropertyAddress", ",", " ",
         "ProjectManager", ",", " ", "RenovationAreas", ",", " ", "ScopeOfWork", ",", " ",
         "MaterialPreferences", ",", " ", "BudgetOrCost", ",", " ", "Timeline", ",", " ",
         "AdditionalNotes", ".", "\n", " ", " ", " ", " ">>

\* ====================================================== extraction client
Headers ==
    << <<"ProjectName">>, <<"ClientName">>, <<"PropertyAddress">>, <<"ProjectManager">>,
       <<"RenovationAreas">>, <<"ScopeOfWork">>, <<"MaterialPreferences">>,
       <<"BudgetOrCost">>, <<"Timeline">>, <<"AdditionalNotes">> >>

HeaderSet == {Headers[i] : i \in 1..Len(Headers)}

NotProvided == <<"Not provided">>

\* A fallback record that misses its last field.
FallbackDetailsNine ==
    PyDict([i \in 1..(Len(Headers) - 1) |-> Item(Headers[i], PyStr(NotProvided))])

\* The fallback record of lines 98-109.
FallbackDetails ==
    PyDict([i \in 1..Len(Headers) |-> Item(Headers[i], PyStr(NotProvided))])

\* setdefault(header, "Not provided") for every header, on a list of items.
RECURSIVE WithDefaults(_, _)
WithDefaults(items, i) ==
    IF i > Len(Headers) THEN items
    ELSE WithDefaults(IF \E j \in 1..Len(items) : items[j].k = Headers[i]
                      THEN items
                      ELSE Append(items, Item(Headers[i], PyStr(NotProvided))),
                      i + 1)

\* A client that completes a parsed dict with the keys it lacks.
ParseGptOutputDefaults(content) ==
    LET gpt_output == Strip(content)
        r == json_loads(gpt_output) IN
    IF r.ok
    THEN [details |-> IF r.val.t = "dict" THEN PyDict(WithDefaults(r.val.items, 1)) ELSE r.val,
          fallback |-> FALSE, gpt_output |-> gpt_output]
    ELSE [details |-> FallbackDetails, fallback |-> TRUE, gpt_output |-> gpt_output]

\* Lines 92-110 of extract_details_with_gpt, after the completion returned
\* content: the details, whether the fallback was taken, and the stripped
\* output that the fallback shows.
ParseGptOutput(content) ==
    LET gpt_output == Strip(content)
        r == json_loads(gpt_output) IN
    IF r.ok
    THEN [details |-> r.val, fallback |-> FALSE, gpt_output |-> gpt_output]
    ELSE [details |-> FallbackDetails, fallback |-> TRUE, gpt_output |-> gpt_output]

\* =================================================== spreadsheet renderer
ColumnWidth == 25
HeaderRowHeight == 25

EmptyCells == [rc \in {} |-> rc]

\* ws.cell(row, column, value) with the style the loop gives it
SetCell(cells, row, col, value, style) ==
    (<<row, col>> :> [value |-> value, style |-> style]) @@ cells

\* The first loop (lines 129-135).
RECURSIVE HeaderRow(_, _)
HeaderRow(cells, col_idx) ==
    IF col_idx > Len(Headers) THEN cells
    ELSE HeaderRow(SetCell(cells, 1, col_idx, Headers[col_idx], "header"), col_idx + 1)

\* ", ".join(val) of a list: TypeError unless every element is a str.
JoinList(val) ==
    IF \E i \in 1..Len(val.l) : val.l[i].t # "str" THEN Raise("TypeError")
    ELSE Ok(PyStr(Join(CommaSpace, [i \in 1..Len(val.l) |-> val.l[i].s])))

\* A lookup that defaults a missing key to the empty str.
CellValueEmptyDefault(details, header) ==
    IF details.t # "dict" THEN Raise("AttributeError")
    ELSE LET val == DictGet(details, header, PyStr(<<>>)) IN
         IF val.t = "list"
         THEN LET j == JoinList(val) IN IF j.ok THEN Ok(Str(j.val)) ELSE j
         ELSE Ok(Str(val))

\* Lines 137-140 for one header: the str written to the row-2 cell.  A
\* details object that is no dict has no get: AttributeError.
CellValue(details, header) ==
    IF details.t # "dict" THEN Raise("AttributeError")
    ELSE LET val == DictGet(details, header, PyStr(NotProvided)) IN
         IF val.t = "list"
         THEN LET j == JoinList(val) IN IF j.ok THEN Ok(Str(j.val)) ELSE j
         ELSE Ok(Str(val))

\* The second loop (lines 136-142); the first exception ends it.
RECURSIVE DataRow(_, _, _)
DataRow(details, cells, col_idx) ==
    IF col_idx > Len(Headers) THEN Ok(cells)
    ELSE LET c == CellValue(details, Headers[col_idx]) IN
         IF ~c.ok THEN c
         ELSE DataRow(details, SetCell(cells, 2, col_idx, c.val, "data"), col_idx + 1)

\* create_pretty_excel: the BytesIO holding the saved workbook, or the
\* exception.
create_pretty_excel(details) ==
    LET row1 == HeaderRow(EmptyCells, 1)
        rows == DataRow(details, row1, 1) IN
    IF ~rows.ok THEN rows
    ELSE Ok([workbook |->
                [sheets |-> << [title |-> "Renovation Data",
                                cells |-> rows.val,
                                column_width |-> [c \in 1..Len(Headers) |-> ColumnWidth],
                                row_height |-> (1 :> HeaderRowHeight),
                                freeze_panes |-> "A2"] >>],
             position |-> 0])

\* ws.max_row and ws.max_column
MaxRow(sheet) == IF DOMAIN sheet.cells = {} THEN 0
                 ELSE CHOOSE r \in {rc[1] : rc \in DOMAIN sheet.cells} :
                        \A rc \in DOMAIN sheet.cells : rc[1] <= r
MaxColumn(sheet) == IF DOMAIN sheet.cells = {} THEN 0
                    ELSE CHOOSE c \in {rc[2] : rc \in DOMAIN sheet.cells} :
                           \A rc \in DOMAIN sheet.cells : rc[2] <= c

\* ================================================================ inputs
\* Names the user may pick; Upload lets through those the uploader accepts.
FileNames ==
    { <<"t", ".", "d", "o", "c", "x">>,
      <<"t", ".", "D", "O", "C", "X">>,
      <<"t", ".", "p", "d", "f">>,
      <<"t", ".", "P", "d", "f">>,
      <<"t", ".", "t", "x", "t">>,
      <<"t", ".", "d", "o", "c">>,
      <<"p", "d", "f">>,
      <<".", "p", "d", "f">> }

DocxBytes ==
    [kind |-> "docx",
     paragraphs |-> << <<"Client:", " ", "Jane Doe,">>, <<>>, <<" ", "budget", "\t", "$50,000", " ">> >>]

PdfBytes ==
    [kind |-> "pdf",
     pages |-> << [has_text |-> TRUE, text |-> <<"Client:", "\n", "Jane Doe">>],
                  [has_text |-> FALSE, text |-> <<>>] >>]

GarbageBytes == [kind |-> "garbage"]

FileBytes == {DocxBytes, PdfBytes, GarbageBytes}

UploadedFiles == [name : FileNames, bytes : FileBytes]

NoFile == [name |-> <<>>, bytes |-> [kind |-> "none"]]

KV(key, value) == <<key, ":", " ">> \o value

FullBody ==
    <<"{">> \o KV("\"ProjectName\"", <<"\"Oak St Remodel\"">>) \o <<",", " ">>
    \o KV("\"ClientName\"", <<"\"Jane Doe\"">>) \o <<",", "\n">>
    \o KV("\"PropertyAddress\"", <<"\"Not provided\"">>) \o <<",">>
    \o KV("\"ProjectManager\"", <<"null">>) \o <<",">>
    \o KV("\"RenovationAreas\"", <<"[", "\"Kitchen\"", ",", " ", "\"Bath\"", "]">>) \o <<",">>
    \o KV("\"ScopeOfWork\"", <<"{", "\"Kitchen\"", ":", "\"Bath\"", ",", "\"Bath\"", ":", "2", "}">>)
    \o <<",">>
    \o KV("\"MaterialPreferences\"", <<"[", "]">>) \o <<",">>
    \o KV("\"BudgetOrCost\"", <<"50000">>) \o <<",">>
    \o KV("\"Timeline\"", <<"-5">>) \o <<",">>
    \o KV("\"AdditionalNotes\"", <<"true">>) \o <<"}">>

\* The message contents the completion service returns in the model.
Contents ==
    { FullBody,
      <<"\n", " ">> \o FullBody \o <<"\n">>,
      <<"{">> \o KV("\"ProjectName\"", <<"\"Oak St Remodel\"">>) \o <<"}">>,
      <<"{">> \o KV("\"ClientName\"", <<"\"Jane Doe\"">>) \o <<",">>
              \o KV("\"Permits\"", <<"\"Kitchen\"">>) \o <<"}", "\n">>,
      <<"{">> \o KV("\"RenovationAreas\"", <<"[", "2", ",", "12", "]">>) \o <<"}">>,
      <<"{">> \o KV("\"BudgetOrCost\"", <<"NaN">>) \o <<"}">>,
      <<"{">> \o KV("\"Timeline\"", <<"\"\"">>) \o <<",">>
              \o KV("\"Timeline\"", <<"\"Kitchen\"">>) \o <<"}">>,
      <<"{", "}">>,
      <<"[", "\"Kitchen\"", "]">>,
      <<"\"Kitchen\"">>,
      <<"Sure,", " ", "here's", " ", "the", " ", "info:", " ", "{", "}">>,
      <<"{">> \o KV("\"ProjectName\"", <<"\"Oak St Remodel\"">>),
      <<"{">> \o KV("\"ProjectName\"", <<"\"Jane Doe\"">>) \o <<",", "}">>,
      <<"{", "}", " ", "{", "}">>,
      <<" ", "\n">>,
      <<>> }

\* ============================================================== pipeline
VARIABLES
    uploaded_file,  \* the file in the uploader, or NoFile
    pc,             \* where main is: "idle" between script runs
    raw_text, cleaned_text, prompt, content, details, fallback, excel_data,
    screen,         \* the elements the current script run has displayed
    trace,          \* the calls of the script run on display, in order
    requests,       \* processing requests started
    outcome,        \* how the script run on display ended its request
    failures        \* processing requests that ended in the handler

pvars == <<uploaded_file, pc, raw_text, cleaned_text, prompt, content, details,
           fallback, excel_data, screen, trace, requests, outcome, failures>>

vars == <<pvars, nvars, evars>>

Unset == [t |-> "unset"]

\* A displayed element: the st call, the source line of the call, its argument.
Element(kind, line, body) == [kind |-> kind, line |-> line, body |-> body]

\* What a script run shows before the button is looked at (lines 159-161, 184).
FreshScreen(file) ==
    IF file = NoFile THEN <<Element("info", 184, <<>>)>>
    ELSE <<Element("write", 161, file.name)>>

Locals == <<raw_text, cleaned_text, prompt, content, details, fallback, excel_data>>

ResetLocals ==
    /\ raw_text' = <<>>
    /\ cleaned_text' = <<>>
    /\ prompt' = <<>>
    /\ content' = <<>>
    /\ details' = Unset
    /\ fallback' = FALSE
    /\ excel_data' = Unset

Init ==
    /\ uploaded_file = NoFile
    /\ pc = "idle"
    /\ raw_text = <<>>
    /\ cleaned_text = <<>>
    /\ prompt = <<>>
    /\ content = <<>>
    /\ details = Unset
    /\ fallback = FALSE
    /\ excel_data = Unset
    /\ screen = FreshScreen(NoFile)
    /\ trace = <<>>
    /\ requests = 0
    /\ outcome = "none"
    /\ failures = 0
    /\ n_text = <<>>
    /\ n_once = <<>>
    /\ n_twice = <<>>
    /\ n_pc = "off"
    /\ EOff

\* The classes "except Exception" catches, among those the model raises.
ExceptionClasses ==
    {"ValueError", "BadZipFile", "PdfReadError", "OpenAIError", "AttributeError", "TypeError"}

\* A handler written as "except ValueError".
CatchesValueError(exc) == exc = "ValueError"

\* Line 181: does the handler catch exc?
Catches(exc) == exc \in ExceptionClasses

\* Lines 181-182: the exception ends the request; the handler reports it.
Except(exc) ==
    IF Catches(exc)
    THEN /\ pc' = "idle"
         /\ screen' = Append(screen, Element("error", 182, exc))
         /\ outcome' = "failed"
         /\ failures' = failures + 1
    ELSE /\ pc' = "uncaught"
         /\ screen' = screen
         /\ outcome' = "uncaught"
         /\ failures' = failures

\* The types of the uploader (line 153), as the extensions it lets through.
UploaderTypes == {DotDocx, DotPdf}

\* The user puts a file into the uploader, which refuses a name whose
\* lower-cased extension is not among its types.  The script reruns with the
\* button unpressed; a script run in progress is stopped for the rerun.
Upload ==
    /\ pc # "uncaught"
    /\ \E f \in UploadedFiles :
         /\ Lower(SplitExt(f.name)) \in UploaderTypes
         /\ uploaded_file' = f
         /\ screen' = FreshScreen(f)
    /\ ResetLocals
    /\ pc' = "idle"
    /\ trace' = <<>>
    /\ outcome' = "none"
    /\ UNCHANGED <<requests, failures, nvars, evars>>

\* The user presses "Process File with GPT" (lines 162-164); a script run in
\* progress is stopped for the rerun.
Click ==
    /\ pc # "uncaught"
    /\ uploaded_file # NoFile
    /\ requests < MaxRequests
    /\ pc' = "extract"
    /\ requests' = requests + 1
    /\ screen' = FreshScreen(uploaded_file)
    /\ trace' = <<>>
    /\ outcome' = "running"
    /\ ResetLocals
    /\ UNCHANGED <<uploaded_file, failures, nvars, evars>>

\* Line 166.
ExtractText ==
    /\ pc = "extract"
    /\ LET r == extract_text(uploaded_file.bytes, SplitExt(uploaded_file.name)) IN
         /\ trace' = trace \o <<"extract_text">> \o r.calls
         /\ IF r.res.ok
            THEN /\ raw_text' = r.res.val
                 /\ pc' = "clean"
                 /\ UNCHANGED <<screen, outcome, failures>>
            ELSE /\ Except(r.res.exc)
                 /\ UNCHANGED raw_text
    /\ UNCHANGED <<uploaded_file, cleaned_text, prompt, content, details, fallback,
                   excel_data, requests, nvars, evars>>

\* Line 167.
CleanText ==
    /\ pc = "clean"
    /\ cleaned_text' = clean_text(raw_text)
    /\ trace' = Append(trace, "clean_text")
    /\ pc' = "complete"
    /\ UNCHANGED <<uploaded_file, raw_text, prompt, content, details, fallback,
                   excel_data, screen, requests, outcome, failures, nvars, evars>>

\* A client that asks the completion service again after a failure.
CompletionFailsAndRetries ==
    /\ pc = "complete"
    /\ Len(trace) < 5
    /\ prompt' = build_prompt(cleaned_text)
    /\ trace' = Append(trace, "ChatCompletion.create")
    /\ UNCHANGED <<uploaded_file, pc, raw_text, cleaned_text, content, details, fallback,
                   excel_data, screen, requests, outcome, failures, nvars, evars>>

\* Lines 86-91, the request fails: the exception leaves extract_details_with_gpt.
CompletionFails ==
    /\ pc = "complete"
    /\ prompt' = build_prompt(cleaned_text)
    /\ trace' = Append(trace, "ChatCompletion.create")
    /\ Except("OpenAIError")
    /\ UNCHANGED <<uploaded_file, raw_text, cleaned_text, content, details, fallback,
                   excel_data, requests, nvars, evars>>

\* Lines 86-91, the service answers with some message content.
CompletionReturns ==
    /\ pc = "complete"
    /\ prompt' = build_prompt(cleaned_text)
    /\ trace' = Append(trace, "ChatCompletion.create")
    /\ \E c \in Contents : content' = c
    /\ pc' = "parse"
    /\ UNCHANGED <<uploaded_file, raw_text, cleaned_text, details, fallback,
                   excel_data, screen, requests, outcome, failures, nvars, evars>>

\* Lines 92-110 and the assignment of line 169.
ParseOutput ==
    /\ pc = "parse"
    /\ LET r == ParseGptOutput(content) IN
         /\ details' = r.details
         /\ fallback' = r.fallback
         /\ screen' = IF r.fallback
                      THEN screen \o <<Element("error", 96, <<>>),
                                       Element("write", 97, r.gpt_output)>>
                      ELSE screen
    /\ trace' = Append(trace, "json.loads")
    /\ pc' = "show"
    /\ UNCHANGED <<uploaded_file, raw_text, cleaned_text, prompt, content,
                   excel_data, requests, outcome, failures, nvars, evars>>

\* Lines 170-171.
ShowDetails ==
    /\ pc = "show"
    /\ screen' = screen \o <<Element("success", 170, <<>>), Element("json", 171, details)>>
    /\ pc' = "render"
    /\ UNCHANGED <<uploaded_file, raw_text, cleaned_text, prompt, content, details, fallback,
                   excel_data, trace, requests, outcome, failures, nvars, evars>>

\* Lines 172-173.
CreateExcel ==
    /\ pc = "render"
    /\ trace' = Append(trace, "create_pretty_excel")
    /\ LET r == create_pretty_excel(details) IN
         IF r.ok
         THEN /\ excel_data' = r.val
              /\ pc' = "offer"
              /\ UNCHANGED <<screen, outcome, failures>>
         ELSE /\ Except(r.exc)
              /\ UNCHANGED excel_data
    /\ UNCHANGED <<uploaded_file, raw_text, cleaned_text, prompt, content, details, fallback,
                   requests, nvars, evars>>

\* Lines 174-180: the script run ends here.
OfferDownload ==
    /\ pc = "offer"
    /\ screen' = screen \o <<Element("success", 174, <<>>),
                             Element("download_button", 175, excel_data)>>
    /\ pc' = "idle"
    /\ outcome' = "ok"
    /\ UNCHANGED <<uploaded_file, raw_text, cleaned_text, prompt, content, details, fallback,
                   excel_data, trace, requests, failures, nvars, evars>>

\* The user presses "Download Excel": the browser gets the bytes and the
\* script reruns with the process button unpressed.
Download ==
    /\ pc = "idle"
    /\ \E i \in 1..Len(screen) : screen[i].kind = "download_button"
    /\ screen' = FreshScreen(uploaded_file)
    /\ ResetLocals
    /\ trace' = <<>>
    /\ outcome' = "none"
    /\ UNCHANGED <<uploaded_file, pc, requests, failures, nvars, evars>>

Next ==
    \/ Upload
    \/ Click
    \/ ExtractText
    \/ CleanText
    \/ CompletionFails
    \/ CompletionReturns
    \/ ParseOutput
    \/ ShowDetails
    \/ CreateExcel
    \/ OfferDownload
    \/ Download

Spec == Init /\ [][Next]_vars

\* The normalizer alone; the pipeline stays where Init put it.
PipelineOff ==
    /\ uploaded_file = NoFile
    /\ pc = "off"
    /\ raw_text = <<>>
    /\ cleaned_text = <<>>
    /\ prompt = <<>>
    /\ content = <<>>
    /\ details = Unset
    /\ fallback = FALSE
    /\ excel_data = Unset
    /\ screen = <<>>
    /\ trace = <<>>
    /\ requests = 0
    /\ outcome = "none"
    /\ failures = 0

NOff ==
    /\ n_text = <<>>
    /\ n_once = <<>>
    /\ n_twice = <<>>
    /\ n_pc = "off"

NormalizerInit == NInit /\ EOff /\ PipelineOff

NormalizerNext ==
    \/ CleanOnce /\ UNCHANGED <<pvars, evars>>
    \/ CleanTwice /\ UNCHANGED <<pvars, evars>>

SpecNormalizer == NormalizerInit /\ [][NormalizerNext]_vars

\* The extractor alone.
ExtractorInit == EInit /\ NOff /\ PipelineOff

ExtractorNext == ExtractCall /\ UNCHANGED <<pvars, nvars>>

SpecExtractor == ExtractorInit /\ [][ExtractorNext]_vars

\* ================================================================ claims
Shown(kind, line) == \E i \in 1..Len(screen) : screen[i].kind = kind /\ screen[i].line = line

CountShown(kind, line) ==
    Cardinality({i \in 1..Len(screen) : screen[i].kind = kind /\ screen[i].line = line})

\* The exception the handler reported last, "" if the last element is no report.
ReportedException ==
    IF screen # <<>> /\ screen[Len(screen)].kind = "error" /\ screen[Len(screen)].line = 182
    THEN screen[Len(screen)].body
    ELSE ""

InTrace(call) == \E i \in 1..Len(trace) : trace[i] = call

IsPrefix(s, t) == Len(s) <= Len(t) /\ SubSeq(t, 1, Len(s)) = s

\* The value the record holds under a key, looked up item by item.
ValueOf(d, key) == LET i == CHOOSE j \in 1..Len(d.items) : d.items[j].k = key IN d.items[i].v

Sheet == excel_data.workbook.sheets[1]

\* C1: for all bytes and every extension that is no spelling of .docx or
\* .pdf in upper or lower case, extract_text raises the unsupported-format
\* ValueError at once, with neither document reader invoked.
C1_UnsupportedFormat ==
    (e_pc = "done" /\ e_ext \notin (DocxSpellings \cup PdfSpellings)) =>
        /\ ~e_out.res.ok
        /\ e_out.res.exc = "ValueError"
        /\ e_out.calls = <<>>

C1_Witness ==
    /\ e_pc = "done"
    /\ e_ext = <<".", "t", "x", "t">>
    /\ e_bytes.kind = "docx"
    /\ e_out = [res |-> [ok |-> FALSE, exc |-> "ValueError"], calls |-> <<>>]

\* A body is valid JSON if the parser accepts it and it does not use the
\* constant NaN, which JSON does not have.
ValidJson(s) == json_loads(s).ok /\ \A i \in 1..Len(s) : s[i] # "NaN"

AllNotProvided(d) ==
    /\ d.t = "dict"
    /\ Len(d.items) = 10
    /\ \A i \in 1..Len(Headers) :
         \E j \in 1..Len(d.items) :
            d.items[j].k = Headers[i] /\ d.items[j].v = PyStr(<<"Not provided">>)

\* C2 as stated: whenever the response body is not valid JSON, the record is
\* the fallback with all ten fields "Not provided" and the request goes on
\* to rendering without failing.
C2_Original ==
    (details # Unset /\ ~ValidJson(Strip(content))) =>
        /\ AllNotProvided(details)
        /\ outcome # "failed"

\* C2 amended: whenever json.loads rejects the response body, the record is
\* the fallback with all ten fields "Not provided", the request does not
\* fail, and it ends with the spreadsheet offered.
C2_FallbackOnParseFailure ==
    (details # Unset /\ ~json_loads(Strip(content)).ok) =>
        /\ fallback
        /\ AllNotProvided(details)
        /\ outcome \in {"running", "ok"}
        /\ pc \in {"show", "render", "offer", "idle"}
        /\ pc = "idle" => Shown("download_button", 175)

C2_Witness ==
    /\ fallback
    /\ outcome = "ok"
    /\ content = <<"Sure,", " ", "here's", " ", "the", " ", "info:", " ", "{", "}">>
    /\ Shown("error", 96)
    /\ Shown("download_button", 175)

\* C3: whenever the stripped response body parses, the record is the parsed
\* object itself: the fallback is not taken, and a record that is a dict has
\* exactly the keys written in the body, no key added.
C3_ParsedUnchanged ==
    (details # Unset /\ json_loads(Strip(content)).ok) =>
        /\ ~fallback
        /\ details = json_loads(Strip(content)).val
        /\ details.t = "dict" =>
             \A k \in DictKeys(details) :
                \E i \in 1..Len(content) :
                   content[i] \in DOMAIN StringTokens /\ StringTokens[content[i]] = k

C3_Witness ==
    /\ pc = "show"
    /\ ~fallback
    /\ details.t = "dict"
    /\ DictKeys(details) = {<<"ClientName">>, <<"Permits">>}

\* C4 as stated: whenever a final record (a dict) has been shown to the user,
\* all ten keys are present in it.
C4_Original ==
    (Shown("json", 171) /\ details.t = "dict") => HeaderSet \subseteq DictKeys(details)

\* C4 amended: a record shown to the user is the fallback, which holds all
\* ten keys, or the parsed response itself, which holds exactly the keys the
\* response holds: a header absent from the response is absent from the shown
\* record.  Such a key is defaulted to "Not provided" in the row-2 cell of the
\* rendered sheet, where all ten columns are populated.
C4_TenKeysInFallbackAndRow ==
    Shown("json", 171) =>
        /\ \A i \in 1..Len(screen) :
              (screen[i].kind = "json" /\ screen[i].line = 171) => screen[i].body = details
        /\ fallback => (details.t = "dict" /\ DictKeys(details) = HeaderSet)
        /\ ~fallback =>
              /\ details = json_loads(Strip(content)).val
              /\ details.t = "dict" =>
                    \A i \in 1..Len(Headers) :
                       Headers[i] \in DictKeys(details) =>
                          \E j \in 1..Len(content) :
                             /\ content[j] \in DOMAIN StringTokens
                             /\ StringTokens[content[j]] = Headers[i]
        /\ excel_data # Unset =>
             \A i \in 1..Len(Headers) :
                /\ <<2, i>> \in DOMAIN Sheet.cells
                /\ Headers[i] \notin DictKeys(details) =>
                      Sheet.cells[<<2, i>>].value = <<"Not provided">>

C4_Witness ==
    /\ Shown("json", 171)
    /\ excel_data # Unset
    /\ ~fallback
    /\ DictKeys(details) = {<<"ProjectName">>}

\* C5: when a request has ended, a record is on display only together with
\* the spreadsheet offered for download.
C5_NoPartialSuccess ==
    (pc = "idle" /\ outcome \in {"ok", "failed"}) =>
        (Shown("json", 171) <=> Shown("download_button", 175))

\* C6: for every record handed to it, create_pretty_excel produces a workbook
\* with one sheet, two populated rows, ten populated columns and the header
\* row in the fixed order.
C6_RenderAlwaysProduces ==
    (trace # <<>> /\ trace[Len(trace)] = "create_pretty_excel" /\ details.t = "dict") =>
        /\ excel_data # Unset
        /\ Len(excel_data.workbook.sheets) = 1
        /\ MaxRow(Sheet) = 2
        /\ MaxColumn(Sheet) = 10
        /\ \A i \in 1..Len(Headers) : Sheet.cells[<<1, i>>].value = Headers[i]

\* C7: once create_pretty_excel has been called on a record, the sheet has
\* exactly the cells of rows 1-2 by columns 1-10, and the row-2 cell of each
\* header is "Not provided" if the record lacks the key, the elements joined
\* with ", " if the value is a list, and the value's string representation
\* otherwise.
C7_RowTwoValues ==
    (trace # <<>> /\ trace[Len(trace)] = "create_pretty_excel" /\ details.t = "dict") =>
        /\ excel_data # Unset
        /\ DOMAIN Sheet.cells = {1, 2} \X (1..10)
        /\ \A i \in 1..Len(Headers) :
             Sheet.cells[<<2, i>>].value =
                IF Headers[i] \notin DictKeys(details) THEN <<"Not provided">>
                ELSE LET v == ValueOf(details, Headers[i]) IN
                     IF v.t = "list"
                     THEN Join(<<",", " ">>, [j \in 1..Len(v.l) |-> Str(v.l[j])])
                     ELSE Str(v)

\* C8: clean_text is idempotent, and its result has no two consecutive
\* whitespace symbols and no whitespace at either end.
C8_NormalizeIdempotent ==
    /\ n_pc = "twice" => n_twice = n_once
    /\ n_pc \in {"once", "twice"} =>
         /\ \A i \in 1..(Len(n_once) - 1) :
               ~(n_once[i] \in Whitespace /\ n_once[i + 1] \in Whitespace)
         /\ n_once # <<>> =>
               (n_once[1] \notin Whitespace /\ n_once[Len(n_once)] \notin Whitespace)

C8_Witness ==
    /\ n_pc = "twice"
    /\ n_text = <<"\n", "a", "\t", "\n">>
    /\ n_once = <<"a">>

\* C9: every exception of a stage is caught by the handler of main and
\* reported once, as the last element on display; no exception escapes, the
\* script run ends, and the process button can start another request.
C9_FailuresCaughtOnce ==
    /\ pc # "uncaught"
    /\ outcome # "uncaught"
    /\ outcome = "failed" =>
         /\ pc = "idle"
         /\ CountShown("error", 182) = 1
         /\ ReportedException \in
               {"ValueError", "BadZipFile", "PdfReadError", "OpenAIError",
                "AttributeError", "TypeError"}
         /\ requests < MaxRequests => ENABLED Click

C9_Witness ==
    /\ failures >= 1
    /\ outcome = "ok"
    /\ Shown("download_button", 175)

StageOrder(reader) ==
    <<"extract_text", reader, "clean_text", "ChatCompletion.create", "json.loads",
      "create_pretty_excel">>

\* C10: the calls of one request are a prefix of extract, normalize,
\* completion request, parse, render, so each happens at most once and in
\* that order; a failed completion request ends the request with no parse
\* and no render.
C10_StrictStageOrder ==
    /\ \/ IsPrefix(trace, StageOrder("extract_text_from_docx"))
       \/ IsPrefix(trace, StageOrder("extract_text_from_pdf"))
    /\ Cardinality({i \in 1..Len(trace) : trace[i] = "ChatCompletion.create"}) <= 1
    /\ ReportedException = "OpenAIError" =>
         /\ trace[Len(trace)] = "ChatCompletion.create"
         /\ ~InTrace("json.loads")
         /\ ~InTrace("create_pretty_excel")
         /\ details = Unset

C10_Witness ==
    /\ ReportedException = "OpenAIError"
    /\ trace = <<"extract_text", "extract_text_from_pdf", "clean_text", "ChatCompletion.create">>
    /\ requests = 2

====
